---- MODULE Spec2Model ----
(***************************************************************************)
(* A model of jubatus' push_mixer (server/framework/mixer/push_mixer.cpp): *)
(* the background worker (mixer_loop), the mix round (mix), the explicit   *)
(* kick (do_mix), the lifecycle calls (start, stop), updated, and the RPC  *)
(* handlers pull, get_pull_argument and push, with the two locks they      *)
(* take: the mixer mutex m_ and the readers-writer lock model_mutex_.      *)
(*                                                                         *)
(* Threads: "w" is the worker thread t_; "d" is an RPC handler thread      *)
(* serving do_mix; "h" is an RPC handler thread serving pull,              *)
(* get_pull_argument and push; "a" and "b" are threads calling stop (and   *)
(* blocking in its join).  start, updated and the first half of stop are   *)
(* one critical section of m_ each and are taken in one step.              *)
(***************************************************************************)
EXTENDS Integers, Sequences, FiniteSets, TLC

\* ------------------------------------------------------------------ bounds
NPeers == 2        \* the nodes other than this one that can register
MaxTime == 2       \* the clock runs from 0 to MaxTime
MaxCounter == 2    \* updated is not called once counter_ has reached MaxCounter
MaxMixCount == 2   \* updated and do_mix are not called once mix_count_ has reached it

my_id_ == 0        \* push_mixer::my_id_, this node
Peers == 1..NPeers
Nodes == {my_id_} \cup Peers
MixThreads == {"w", "d"}
LockThreads == {"w", "d", "h"}
StopThreads == {"a", "b"}
StatusThreads == {"g"}
Threads == LockThreads \cup StopThreads \cup StatusThreads
NoThread == "none"
NoDiff == -1       \* a response that is not a msgpack RAW object
NoCall == <<"none", "none">>

VARIABLES
    is_running_,      \* push_mixer::is_running_
    counter_,         \* push_mixer::counter_
    mix_count_,       \* push_mixer::mix_count_
    ticktime_,        \* push_mixer::ticktime_
    count_threshold_, \* push_mixer::count_threshold_ (fixed at construction)
    tick_threshold_,  \* push_mixer::tick_threshold_ (fixed at construction)
    m_,               \* owner of the mixer mutex m_, or NoThread
    model_mutex_,     \* the rw_mutex: [writer |-> thread or NoThread, readers |-> set]
    c_,               \* the condition c_: TRUE when a notify reached the waiting worker
    t_,               \* the thread object t_: TRUE while it owns an unjoined thread
    nodes,            \* the nodes registered in the coordination service
    servers_,         \* push_communication_impl::servers_
    model,            \* the mixable's model: the peers whose diffs were applied
    now,              \* the clock read by get_clock_time()
    pc,               \* each thread's position
    cand,             \* mix(): candidates, as positions in servers_ (pointers)
    candv,            \* the peers those positions held when candidates was built
    idx,              \* mix(): the loop index i (1-based)
    her_diff,         \* mix(): the peer whose diff pull returned, or NoDiff
    tmp,              \* mix(): the value of mix_count_ read by mix_count_++
    new_ticktime,     \* mixer_loop(): new_ticktime
    h_diff,           \* the push handler's argument: the peer that sent the diff
    lastrpc,          \* per node, the last RPC <<thread, name>> this mixer sent to
                      \* it in an exchange that is still going on
    failed,           \* per round: an exception was raised in it
    okcount,          \* per round: the number of peer RPCs that returned successfully
    applied,          \* per round: the number of diffs the round applied locally
    stopped           \* a call of stop has returned and start was not called since

vars == << is_running_, counter_, mix_count_, ticktime_, count_threshold_,
           tick_threshold_, m_, model_mutex_, c_, t_, nodes, servers_, model,
           now, pc,
           cand, candv, idx, her_diff, tmp, new_ticktime, h_diff, lastrpc,
           failed, okcount, applied, stopped >>

config == << count_threshold_, tick_threshold_, nodes >>
locals == << cand, candv, idx, her_diff, tmp >>
ghosts == << failed, okcount, applied >>

\* ----------------------------------------------------------------- helpers

RECURSIVE SortedSeq(_)
SortedSeq(S) ==
    IF S = {} THEN << >>
    ELSE LET m == CHOOSE x \in S : \A y \in S : x <= y
         IN << m >> \o SortedSeq(S \ {m})

\* What get_all_nodes stores in servers_: the registered nodes, in order.
get_all_nodes == SortedSeq(nodes)

\* filter_candidates (the default selector): pointers to the elements of the
\* server list other than this node, in list order.
filter_candidates(list) == SortedSeq({i \in 1..Len(list) : list[i] # my_id_})

\* The peers the reference `she` (= *candidates[i]) can denote when it is
\* read: the element the pointer was taken to, or, after another round's
\* update_members rewrote servers_, what now stands at that position.
she(t) ==
    LET p == cand[t][idx[t]]
    IN {candv[t][idx[t]]} \cup (IF p <= Len(servers_) THEN {servers_[p]} ELSE {})

AfterMix(t) == IF t = "w" THEN "w_loop" ELSE "dm_ret_true"

RLockFree == model_mutex_.writer = NoThread
WLockFree == model_mutex_.writer = NoThread /\ model_mutex_.readers = {}
ReadLocked(t) == [model_mutex_ EXCEPT !.readers = @ \cup {t}]
ReadUnlocked(t) == [model_mutex_ EXCEPT !.readers = @ \ {t}]
WriteLocked(t) == [model_mutex_ EXCEPT !.writer = t]
WriteUnlocked(t) == [model_mutex_ EXCEPT !.writer = NoThread]

\* An exception other than jubatus_exception leaves mixer_loop uncaught and
\* ends the process with the thread: no thread takes a step after it.
Alive == pc["w"] # "terminated"

\* -------------------------------------------------------------------- Init

Init ==
    /\ is_running_ = FALSE
    /\ counter_ = 0
    /\ mix_count_ = 0
    /\ ticktime_ = 0
    /\ count_threshold_ \in 0..MaxCounter
    /\ tick_threshold_ \in 0..(MaxTime - 1)
    /\ m_ = NoThread
    /\ model_mutex_ = [writer |-> NoThread, readers |-> {}]
    /\ c_ = FALSE
    /\ t_ = FALSE
    /\ nodes \in { 0..(n - 1) : n \in 0..(NPeers + 1) }
    /\ servers_ = << >>
    /\ model = {}
    /\ now = 0
    /\ pc = [t \in Threads |-> IF t = "w" THEN "dead" ELSE "idle"]
    /\ cand = [t \in MixThreads |-> << >>]
    /\ candv = [t \in MixThreads |-> << >>]
    /\ idx = [t \in MixThreads |-> 1]
    /\ her_diff = [t \in MixThreads |-> NoDiff]
    /\ tmp = [t \in MixThreads |-> 0]
    /\ new_ticktime = 0
    /\ h_diff = NoDiff
    /\ lastrpc = [p \in Nodes |-> NoCall]
    /\ failed = [t \in MixThreads |-> FALSE]
    /\ okcount = [t \in MixThreads |-> 0]
    /\ applied = [t \in MixThreads |-> 0]
    /\ stopped = FALSE

\* ------------------------------------------------------- the environment

\* A node registers in, or disappears from, the coordination service.
NodeJoin(n) ==
    /\ n \notin nodes
    /\ nodes' = nodes \cup {n}
    /\ UNCHANGED << is_running_, counter_, mix_count_, ticktime_,
                    count_threshold_, tick_threshold_, m_, model_mutex_, c_,
                    t_, servers_, model, now, pc, locals, new_ticktime, h_diff,
                    lastrpc, ghosts, stopped >>

NodeLeave(n) ==
    /\ n \in nodes
    /\ nodes' = nodes \ {n}
    /\ UNCHANGED << is_running_, counter_, mix_count_, ticktime_,
                    count_threshold_, tick_threshold_, m_, model_mutex_, c_,
                    t_, servers_, model, now, pc, locals, new_ticktime, h_diff,
                    lastrpc, ghosts, stopped >>


Tick ==
    /\ now < MaxTime
    /\ now' = now + 1
    /\ UNCHANGED << is_running_, counter_, mix_count_, ticktime_, config, m_,
                    model_mutex_, c_, t_, servers_, model, pc, locals,
                    new_ticktime, h_diff, lastrpc, ghosts, stopped >>

\* ------------------------------------------------- start, stop and updated

\* push_mixer::start: under m_, sets is_running_ and starts the thread t_
\* (a thread object that still owns an unjoined thread starts no second one).
Start ==
    /\ Alive
    /\ m_ = NoThread
    /\ stopped' = FALSE
    /\ IF ~is_running_
       THEN /\ is_running_' = TRUE
            /\ IF ~t_
               THEN t_' = TRUE /\ pc' = [pc EXCEPT !["w"] = "w_loop"]
               ELSE UNCHANGED << t_, pc >>
       ELSE UNCHANGED << is_running_, t_, pc >>
    /\ UNCHANGED << counter_, mix_count_, ticktime_, config, m_, model_mutex_,
                    c_, servers_, model, now, locals, new_ticktime, h_diff,
                    lastrpc, ghosts >>

\* push_mixer::stop up to lk.unlock(): clears is_running_ and goes on to
\* join the worker; when the mixer is not running it returns at once.
StopBody(c) ==
    IF is_running_
    THEN /\ is_running_' = FALSE
         /\ pc' = [pc EXCEPT ![c] = "joining"]
         /\ UNCHANGED stopped
    ELSE /\ stopped' = TRUE
         /\ UNCHANGED << is_running_, pc >>

Stop(c) ==
    /\ Alive
    /\ pc[c] = "idle"
    /\ m_ = NoThread
    /\ StopBody(c)
    /\ UNCHANGED << counter_, mix_count_, ticktime_, config, m_, model_mutex_,
                    c_, t_, servers_, model, now, locals, new_ticktime, h_diff,
                    lastrpc, ghosts >>

\* t_.join() in stop: returns once the worker's thread function has returned.
Join(c) ==
    /\ Alive
    /\ pc[c] = "joining"
    /\ pc["w"] \in {"exited", "dead"}
    /\ t_' = FALSE
    /\ pc' = [pc EXCEPT ![c] = "idle", !["w"] = "dead"]
    /\ stopped' = TRUE
    /\ UNCHANGED << is_running_, counter_, mix_count_, ticktime_, config, m_,
                    model_mutex_, c_, servers_, model, now, locals,
                    new_ticktime, h_diff, lastrpc, ghosts >>

\* The condition under which updated() calls c_.notify().
UpdatedNotifies(cnt) ==
    cnt >= count_threshold_ \/ now - ticktime_ > tick_threshold_

\* push_mixer::updated: under m_, ++counter_ and a notify of c_, which only a
\* worker inside c_.wait receives.
Updated ==
    /\ Alive
    /\ m_ = NoThread
    /\ counter_ < MaxCounter
    /\ mix_count_ < MaxMixCount
    /\ counter_' = counter_ + 1
    /\ c_' = IF UpdatedNotifies(counter_ + 1) /\ pc["w"] = "w_wait" THEN TRUE ELSE c_
    /\ UNCHANGED << is_running_, mix_count_, ticktime_, config, m_, model_mutex_,
                    t_, servers_, model, now, pc, locals, new_ticktime, h_diff,
                    lastrpc, ghosts, stopped >>

\* -------------------------------------------------------------- mixer_loop

\* The test the worker makes after c_.wait returned, on the counter and on
\* the time new_ticktime it has just read.
ThresholdUnguarded(cnt, nt) ==
    cnt >= count_threshold_ \/ nt - ticktime_ > tick_threshold_
Threshold(cnt, nt) ==
    \/ (0 < count_threshold_ /\ cnt >= count_threshold_)
    \/ (0 < tick_threshold_ /\ nt - ticktime_ > tick_threshold_)

\* while (is_running_): read without m_.
WLoop ==
    /\ Alive
    /\ pc["w"] = "w_loop"
    /\ pc' = [pc EXCEPT !["w"] = IF is_running_ THEN "w_lock" ELSE "exited"]
    /\ failed' = [failed EXCEPT !["w"] = FALSE]
    /\ okcount' = [okcount EXCEPT !["w"] = 0]
    /\ applied' = [applied EXCEPT !["w"] = 0]
    /\ UNCHANGED << is_running_, counter_, mix_count_, ticktime_, config, m_,
                    model_mutex_, c_, t_, servers_, model, now, locals,
                    new_ticktime, h_diff, lastrpc, stopped >>

\* unique_lock lk(m_); if (!is_running_) return; c_.wait(m_, 0.5) releases m_.
WLock ==
    /\ Alive
    /\ pc["w"] = "w_lock"
    /\ m_ = NoThread
    /\ pc' = [pc EXCEPT !["w"] = IF is_running_ THEN "w_wait" ELSE "exited"]
    /\ c_' = FALSE
    /\ UNCHANGED << is_running_, counter_, mix_count_, ticktime_, config, m_,
                    model_mutex_, t_, servers_, model, now, locals,
                    new_ticktime, h_diff, lastrpc, ghosts, stopped >>

\* c_.wait returns (notified, or after its 0.5 s timeout) holding m_ again;
\* the thresholds are tested; when one is crossed counter_ is reset.
WCheck ==
    /\ Alive
    /\ pc["w"] = "w_wait"
    /\ m_ = NoThread
    /\ c_' = FALSE
    /\ new_ticktime' = now
    /\ IF Threshold(counter_, now)
       THEN /\ counter_' = 0
            /\ m_' = "w"
            /\ pc' = [pc EXCEPT !["w"] = "w_tick"]
       ELSE /\ pc' = [pc EXCEPT !["w"] = "w_loop"]
            /\ UNCHANGED << counter_, m_ >>
    /\ UNCHANGED << is_running_, mix_count_, ticktime_, config, model_mutex_,
                    t_, servers_, model, now, locals, h_diff, lastrpc, ghosts,
                    stopped >>

WTickKeepsMutex ==
    /\ Alive
    /\ pc["w"] = "w_tick"
    /\ ticktime_' = new_ticktime
    /\ pc' = [pc EXCEPT !["w"] = "mix_refresh"]
    /\ UNCHANGED << is_running_, counter_, mix_count_, config, m_, model_mutex_,
                    c_, t_, servers_, model, now, locals, new_ticktime, h_diff,
                    lastrpc, ghosts, stopped >>

\* ticktime_ = new_ticktime; lk.unlock(); mix() is entered.
WTick ==
    /\ Alive
    /\ pc["w"] = "w_tick"
    /\ ticktime_' = new_ticktime
    /\ m_' = NoThread
    /\ pc' = [pc EXCEPT !["w"] = "mix_refresh"]
    /\ UNCHANGED << is_running_, counter_, mix_count_, config, model_mutex_,
                    c_, t_, servers_, model, now, locals, new_ticktime, h_diff,
                    lastrpc, ghosts, stopped >>

\* -------------------------------------------------------------------- mix

\* The catch of mix(): the exception is logged and mix() returns to its
\* caller, which goes on as after a round that ended normally.
MixCatchFallsThrough(t) == "mix_inc_r"
MixCatch(t) == AfterMix(t)

\* mix() returns: its local variables are gone.
MixLocalsGone(t) ==
    /\ cand' = [cand EXCEPT ![t] = << >>]
    /\ candv' = [candv EXCEPT ![t] = << >>]
    /\ idx' = [idx EXCEPT ![t] = 1]
    /\ her_diff' = [her_diff EXCEPT ![t] = NoDiff]
    /\ tmp' = [tmp EXCEPT ![t] = 0]

\* The exchange of thread t is over: its RPCs leave lastrpc.
ExchangeOver(t) ==
    lastrpc' = [n \in Nodes |-> IF lastrpc[n][1] = t THEN NoCall ELSE lastrpc[n]]

Abort(t) ==
    /\ pc' = [pc EXCEPT ![t] = MixCatch(t)]
    /\ failed' = [failed EXCEPT ![t] = TRUE]
    /\ MixLocalsGone(t)
    /\ ExchangeOver(t)

\* Where an exception of kind e that leaves mix() takes its caller: do_mix
\* catches everything and returns false; mixer_loop catches only
\* jubatus_exception, anything else ends the thread function and the process.
MixThrows(t, e) ==
    IF t = "d" THEN "dm_ret_false"
    ELSE IF e = "jubatus_exception" THEN "w_loop" ELSE "terminated"

MixRefreshNoEmptyCheck(t) ==
    /\ Alive
    /\ pc[t] = "mix_refresh"
    /\ \/ /\ servers_' = get_all_nodes
          /\ pc' = [pc EXCEPT ![t] = "mix_select"]
          /\ UNCHANGED failed
       \/ \E e \in {"jubatus_exception", "std_exception"} :
            /\ pc' = [pc EXCEPT ![t] = MixThrows(t, e)]
            /\ failed' = [failed EXCEPT ![t] = TRUE]
            /\ UNCHANGED servers_
    /\ UNCHANGED << is_running_, counter_, mix_count_, ticktime_, config, m_,
                    model_mutex_, c_, t_, model, now, locals, new_ticktime,
                    h_diff, lastrpc, okcount, applied, stopped >>

\* update_members(): servers_ is replaced by what the coordination service
\* lists; with no server mix() returns.  The call can also throw.
MixRefresh(t) ==
    /\ Alive
    /\ pc[t] = "mix_refresh"
    /\ \/ /\ servers_' = get_all_nodes
          /\ pc' = [pc EXCEPT ![t] = IF Len(get_all_nodes) = 0 THEN AfterMix(t)
                                     ELSE "mix_select"]
          /\ UNCHANGED failed
       \/ \E e \in {"jubatus_exception", "std_exception"} :
            /\ pc' = [pc EXCEPT ![t] = MixThrows(t, e)]
            /\ failed' = [failed EXCEPT ![t] = TRUE]
            /\ UNCHANGED servers_
    /\ UNCHANGED << is_running_, counter_, mix_count_, ticktime_, config, m_,
                    model_mutex_, c_, t_, model, now, locals, new_ticktime,
                    h_diff, lastrpc, okcount, applied, stopped >>

\* candidates = filter_candidates(servers_list()): pointers into servers_.
\* With no candidate the loop is skipped and mix() goes on to mix_count_++.
MixSelect(t) ==
    /\ Alive
    /\ pc[t] = "mix_select"
    /\ LET c == filter_candidates(servers_)
       IN /\ cand' = [cand EXCEPT ![t] = c]
          /\ candv' = [candv EXCEPT ![t] = [i \in 1..Len(c) |-> servers_[c[i]]]]
          /\ pc' = [pc EXCEPT ![t] = IF Len(c) = 0 THEN "mix_inc_r" ELSE "ga_r"]
    /\ idx' = [idx EXCEPT ![t] = 1]
    /\ UNCHANGED << is_running_, counter_, mix_count_, ticktime_, config, m_,
                    model_mutex_, c_, t_, servers_, model, now, her_diff, tmp,
                    new_ticktime, h_diff, lastrpc, ghosts, stopped >>

\* The order of the loop body of mix(): what follows pull(her_args), and ++i.
LocalPushFirst == "ps_w"
AfterLocalPull == "rpc_push"
NextIndexSkips(i) == i + 2
NextIndex(i) == i + 1

\* An RPC named name is sent to the peer p by thread t.
Send(t, p, name) == lastrpc' = [lastrpc EXCEPT ![p] = << t, name >>]

\* get_pull_argument(0), first half: scoped_rlock lk_read(model_mutex_).
GaLock(t) ==
    /\ Alive
    /\ pc[t] = "ga_r"
    /\ RLockFree
    /\ model_mutex_' = ReadLocked(t)
    /\ pc' = [pc EXCEPT ![t] = "ga_m"]
    /\ UNCHANGED << is_running_, counter_, mix_count_, ticktime_, config, m_,
                    c_, t_, servers_, model, now, locals, new_ticktime, h_diff,
                    lastrpc, ghosts, stopped >>

\* The locks a thread holds when get_pull_argument / pull has returned.
ReadKept(t) == model_mutex_
ReadDone(t) == ReadUnlocked(t)

\* get_pull_argument(0), second half: scoped_lock lk(m_), get_argument, both
\* locks released on return; then communication_->pull(she, my_args) is sent.
GaBody(t) ==
    /\ Alive
    /\ pc[t] = "ga_m"
    /\ m_ = NoThread
    /\ model_mutex_' = ReadDone(t)
    /\ \E p \in she(t) :
          /\ Send(t, p, "pull")
          /\ her_diff' = [her_diff EXCEPT ![t] = p]
    /\ pc' = [pc EXCEPT ![t] = "rpc_pull"]
    /\ UNCHANGED << is_running_, counter_, mix_count_, ticktime_, config, m_,
                    c_, t_, servers_, model, now, cand, candv, idx, tmp,
                    new_ticktime, h_diff, ghosts, stopped >>

\* communication_->pull returns: her diff (which may not be a RAW object),
\* and communication_->get_pull_argument(she) is sent; or it throws.
RpcPull(t) ==
    /\ Alive
    /\ pc[t] = "rpc_pull"
    /\ \/ /\ \E raw \in BOOLEAN :
               her_diff' = [her_diff EXCEPT ![t] = IF raw THEN @ ELSE NoDiff]
          /\ \E p \in she(t) : Send(t, p, "get_pull_argument")
          /\ pc' = [pc EXCEPT ![t] = "rpc_gpa"]
          /\ okcount' = [okcount EXCEPT ![t] = @ + 1]
          /\ UNCHANGED << failed, cand, candv, idx, tmp >>
       \/ /\ Abort(t)
          /\ UNCHANGED okcount
    /\ UNCHANGED << is_running_, counter_, mix_count_, ticktime_, config, m_,
                    model_mutex_, c_, t_, servers_, model, now, new_ticktime,
                    h_diff, applied, stopped >>

\* communication_->get_pull_argument returns her arguments; when they are
\* not a RAW object pull(her_args) throws type_error; or the call throws.
RpcGpa(t) ==
    /\ Alive
    /\ pc[t] = "rpc_gpa"
    /\ \/ /\ pc' = [pc EXCEPT ![t] = "pl_r"]
          /\ okcount' = [okcount EXCEPT ![t] = @ + 1]
          /\ UNCHANGED << failed, locals, lastrpc >>
       \/ /\ Abort(t)
          /\ okcount' = [okcount EXCEPT ![t] = @ + 1]
       \/ /\ Abort(t)
          /\ UNCHANGED okcount
    /\ UNCHANGED << is_running_, counter_, mix_count_, ticktime_, config, m_,
                    model_mutex_, c_, t_, servers_, model, now, new_ticktime,
                    h_diff, applied, stopped >>

\* pull(her_args), first half: scoped_rlock lk_read(model_mutex_).
PlLock(t) ==
    /\ Alive
    /\ pc[t] = "pl_r"
    /\ RLockFree
    /\ model_mutex_' = ReadLocked(t)
    /\ pc' = [pc EXCEPT ![t] = "pl_m"]
    /\ UNCHANGED << is_running_, counter_, mix_count_, ticktime_, config, m_,
                    c_, t_, servers_, model, now, locals, new_ticktime, h_diff,
                    lastrpc, ghosts, stopped >>

\* pull(her_args), second half, under m_; then communication_->push(she,
\* my_diff) is sent.
PlBody(t) ==
    /\ Alive
    /\ pc[t] = "pl_m"
    /\ m_ = NoThread
    /\ model_mutex_' = ReadDone(t)
    /\ \E p \in she(t) : Send(t, p, "push")
    /\ pc' = [pc EXCEPT ![t] = AfterLocalPull]
    /\ UNCHANGED << is_running_, counter_, mix_count_, ticktime_, config, m_,
                    c_, t_, servers_, model, now, locals, new_ticktime, h_diff,
                    ghosts, stopped >>

\* communication_->push returns, and push(her_diff) is entered: it throws
\* type_error when her_diff is not a RAW object; or the call throws.
RpcPush(t) ==
    /\ Alive
    /\ pc[t] = "rpc_push"
    /\ \/ /\ okcount' = [okcount EXCEPT ![t] = @ + 1]
          /\ IF her_diff[t] = NoDiff
             THEN Abort(t)
             ELSE /\ pc' = [pc EXCEPT ![t] = "ps_w"]
                  /\ ExchangeOver(t)
                  /\ UNCHANGED << failed, locals >>
       \/ /\ Abort(t)
          /\ UNCHANGED okcount
    /\ UNCHANGED << is_running_, counter_, mix_count_, ticktime_, config, m_,
                    model_mutex_, c_, t_, servers_, model, now, new_ticktime,
                    h_diff, applied, stopped >>

\* ------------------------------------------------------- push_mixer::push

PushBodyKeepsCounter(t, diff) ==
    /\ m_ = NoThread
    /\ m_' = t
    /\ model' = model \cup {diff}
    /\ UNCHANGED counter_

\* scoped_wlock lk_write(model_mutex_); scoped_lock lk(m_); mixable->push(diff);
\* counter_ = 0.
PushBody(t, diff) ==
    /\ m_ = NoThread
    /\ m_' = t
    /\ model' = model \cup {diff}
    /\ counter_' = 0

\* ticktime_ = get_clock_time(); return 0 releases m_ and the writer lock.
PushReturn(t) ==
    /\ ticktime_' = now
    /\ m_' = NoThread
    /\ model_mutex_' = WriteUnlocked(t)

\* push(her_diff) in mix(): the writer lock is taken.
PsLock(t) ==
    /\ Alive
    /\ pc[t] = "ps_w"
    /\ WLockFree
    /\ model_mutex_' = WriteLocked(t)
    /\ pc' = [pc EXCEPT ![t] = "ps_m"]
    /\ UNCHANGED << is_running_, counter_, mix_count_, ticktime_, config, m_,
                    c_, t_, servers_, model, now, locals, new_ticktime, h_diff,
                    lastrpc, ghosts, stopped >>

PsBody(t) ==
    /\ Alive
    /\ pc[t] = "ps_m"
    /\ PushBody(t, her_diff[t])
    /\ pc' = [pc EXCEPT ![t] = "ps_t"]
    /\ applied' = [applied EXCEPT ![t] = @ + 1]
    /\ UNCHANGED << is_running_, mix_count_, ticktime_, config, model_mutex_,
                    c_, t_, servers_, now, locals, new_ticktime, h_diff,
                    lastrpc, failed, okcount, stopped >>

\* push(her_diff) returns; ++i; the loop goes on with the next candidate or
\* ends, and mix() goes on to mix_count_++.
PsReturn(t) ==
    /\ Alive
    /\ pc[t] = "ps_t"
    /\ PushReturn(t)
    /\ idx' = [idx EXCEPT ![t] = NextIndex(@)]
    /\ pc' = [pc EXCEPT ![t] = IF idx[t] < Len(cand[t]) THEN "ga_r" ELSE "mix_inc_r"]
    /\ UNCHANGED << is_running_, counter_, mix_count_, config, c_, t_, servers_,
                    model, now, cand, candv, her_diff, tmp, new_ticktime,
                    h_diff, lastrpc, ghosts, stopped >>

\* mix_count_++ is a read and a write of mix_count_, under no lock.
MixIncRead(t) ==
    /\ Alive
    /\ pc[t] = "mix_inc_r"
    /\ tmp' = [tmp EXCEPT ![t] = mix_count_]
    /\ pc' = [pc EXCEPT ![t] = "mix_inc_w"]
    /\ UNCHANGED << is_running_, counter_, mix_count_, ticktime_, config, m_,
                    model_mutex_, c_, t_, servers_, model, now, cand, candv,
                    idx, her_diff, new_ticktime, h_diff, lastrpc, ghosts,
                    stopped >>

MixIncWrite(t) ==
    /\ Alive
    /\ pc[t] = "mix_inc_w"
    /\ mix_count_' = tmp[t] + 1
    /\ pc' = [pc EXCEPT ![t] = AfterMix(t)]
    /\ MixLocalsGone(t)
    /\ UNCHANGED << is_running_, counter_, ticktime_, config, m_, model_mutex_,
                    c_, t_, servers_, model, now, new_ticktime, h_diff,
                    lastrpc, ghosts, stopped >>

\* ------------------------------------------------------------------ do_mix

DoMixCallUnlocked ==
    /\ Alive
    /\ pc["d"] = "idle"
    /\ mix_count_ < MaxMixCount
    /\ m_ = NoThread
    /\ counter_' = 0
    /\ pc' = [pc EXCEPT !["d"] = "dm_tick"]
    /\ UNCHANGED << is_running_, mix_count_, ticktime_, config, m_, model_mutex_,
                    c_, t_, servers_, model, now, locals, new_ticktime, h_diff,
                    lastrpc, ghosts, stopped >>

\* do_mix: unique_lock lk(m_); counter_ = 0.
DoMixCall ==
    /\ Alive
    /\ pc["d"] = "idle"
    /\ mix_count_ < MaxMixCount
    /\ m_ = NoThread
    /\ m_' = "d"
    /\ counter_' = 0
    /\ pc' = [pc EXCEPT !["d"] = "dm_tick"]
    /\ UNCHANGED << is_running_, mix_count_, ticktime_, config, model_mutex_,
                    c_, t_, servers_, model, now, locals, new_ticktime, h_diff,
                    lastrpc, ghosts, stopped >>

DoMixTickKeepsTick ==
    /\ Alive
    /\ pc["d"] = "dm_tick"
    /\ m_' = NoThread
    /\ pc' = [pc EXCEPT !["d"] = "mix_refresh"]
    /\ UNCHANGED << is_running_, counter_, mix_count_, ticktime_, config,
                    model_mutex_, c_, t_, servers_, model, now, locals,
                    new_ticktime, h_diff, lastrpc, ghosts, stopped >>

\* ticktime_ = get_clock_time(); lk.unlock(); mix() is entered.
DoMixTick ==
    /\ Alive
    /\ pc["d"] = "dm_tick"
    /\ ticktime_' = now
    /\ m_' = NoThread
    /\ pc' = [pc EXCEPT !["d"] = "mix_refresh"]
    /\ UNCHANGED << is_running_, counter_, mix_count_, config, model_mutex_,
                    c_, t_, servers_, model, now, locals, new_ticktime, h_diff,
                    lastrpc, ghosts, stopped >>

\* do_mix returns (true after mix() returned, false from a catch).
DoMixReturn ==
    /\ Alive
    /\ pc["d"] \in {"dm_ret_true", "dm_ret_false"}
    /\ pc' = [pc EXCEPT !["d"] = "idle"]
    /\ failed' = [failed EXCEPT !["d"] = FALSE]
    /\ okcount' = [okcount EXCEPT !["d"] = 0]
    /\ applied' = [applied EXCEPT !["d"] = 0]
    /\ UNCHANGED << is_running_, counter_, mix_count_, ticktime_, config, m_,
                    model_mutex_, c_, t_, servers_, model, now, locals,
                    new_ticktime, h_diff, lastrpc, stopped >>

\* ------------------------------------------ the RPC handlers, on thread "h"

\* The push handler called by peer q with a RAW diff: the writer lock.
HPushLock(q) ==
    /\ Alive
    /\ pc["h"] = "idle"
    /\ WLockFree
    /\ model_mutex_' = WriteLocked("h")
    /\ h_diff' = q
    /\ pc' = [pc EXCEPT !["h"] = "h_push_m"]
    /\ UNCHANGED << is_running_, counter_, mix_count_, ticktime_, config, m_,
                    c_, t_, servers_, model, now, locals, new_ticktime,
                    lastrpc, ghosts, stopped >>

HPushBody ==
    /\ Alive
    /\ pc["h"] = "h_push_m"
    /\ PushBody("h", h_diff)
    /\ pc' = [pc EXCEPT !["h"] = "h_push_t"]
    /\ UNCHANGED << is_running_, mix_count_, ticktime_, config, model_mutex_,
                    c_, t_, servers_, now, locals, new_ticktime, h_diff,
                    lastrpc, ghosts, stopped >>

HPushReturn ==
    /\ Alive
    /\ pc["h"] = "h_push_t"
    /\ PushReturn("h")
    /\ h_diff' = NoDiff
    /\ pc' = [pc EXCEPT !["h"] = "idle"]
    /\ UNCHANGED << is_running_, counter_, mix_count_, config, c_, t_, servers_,
                    model, now, locals, new_ticktime, lastrpc, ghosts, stopped >>

\* The pull and get_pull_argument handlers: the reader lock, then m_; both
\* are released on return.  name is "h_pull" or "h_gpa".
HReadLock(name) ==
    /\ Alive
    /\ pc["h"] = "idle"
    /\ RLockFree
    /\ model_mutex_' = ReadLocked("h")
    /\ pc' = [pc EXCEPT !["h"] = name]
    /\ UNCHANGED << is_running_, counter_, mix_count_, ticktime_, config, m_,
                    c_, t_, servers_, model, now, locals, new_ticktime, h_diff,
                    lastrpc, ghosts, stopped >>

HReadBody(name) ==
    /\ Alive
    /\ pc["h"] = name
    /\ m_ = NoThread
    /\ model_mutex_' = ReadDone("h")
    /\ pc' = [pc EXCEPT !["h"] = "idle"]
    /\ UNCHANGED << is_running_, counter_, mix_count_, ticktime_, config, m_,
                    c_, t_, servers_, model, now, locals, new_ticktime, h_diff,
                    lastrpc, ghosts, stopped >>

\* -------------------------------------------- get_status, on thread "g"

\* scoped_lock lk(m_).
GsLock ==
    /\ Alive
    /\ pc["g"] = "idle"
    /\ m_ = NoThread
    /\ m_' = "g"
    /\ pc' = [pc EXCEPT !["g"] = "gs_count"]
    /\ UNCHANGED << is_running_, counter_, mix_count_, ticktime_, config,
                    model_mutex_, c_, t_, servers_, model, now, locals,
                    new_ticktime, h_diff, lastrpc, ghosts, stopped >>

\* status["push_mixer.count"] = counter_.
GsCount ==
    /\ Alive
    /\ pc["g"] = "gs_count"
    /\ pc' = [pc EXCEPT !["g"] = "gs_tick"]
    /\ UNCHANGED << is_running_, counter_, mix_count_, ticktime_, config, m_,
                    model_mutex_, c_, t_, servers_, model, now, locals,
                    new_ticktime, h_diff, lastrpc, ghosts, stopped >>

\* status["push_mixer.ticktime"] = ticktime_.sec; the return releases m_.
GsTick ==
    /\ Alive
    /\ pc["g"] = "gs_tick"
    /\ m_' = NoThread
    /\ pc' = [pc EXCEPT !["g"] = "idle"]
    /\ UNCHANGED << is_running_, counter_, mix_count_, ticktime_, config,
                    model_mutex_, c_, t_, servers_, model, now, locals,
                    new_ticktime, h_diff, lastrpc, ghosts, stopped >>

GetStatus == GsLock \/ GsCount \/ GsTick

\* ------------------------------------------------------------------- Next

Round(t) ==
    \/ MixRefresh(t) \/ MixSelect(t)
    \/ GaLock(t) \/ GaBody(t) \/ RpcPull(t) \/ RpcGpa(t)
    \/ PlLock(t) \/ PlBody(t) \/ RpcPush(t)
    \/ PsLock(t) \/ PsBody(t) \/ PsReturn(t)
    \/ MixIncRead(t) \/ MixIncWrite(t)

Worker == WLoop \/ WLock \/ WCheck \/ WTick

DoMix == DoMixCall \/ DoMixTick \/ DoMixReturn

PushHandler == (\E q \in Peers : HPushLock(q)) \/ HPushBody \/ HPushReturn

ReadHandlers == \E name \in {"h_pull", "h_gpa"} : HReadLock(name) \/ HReadBody(name)

Handlers == PushHandler \/ ReadHandlers

Lifecycle == Start \/ \E c \in StopThreads : Stop(c) \/ Join(c)

Membership == \E n \in Nodes : NodeJoin(n) \/ NodeLeave(n)

\* The rounds of the worker and of do_mix, with updated and the handlers:
\* the mixer is started and never stopped, the registered nodes do not
\* change, and no time passes: the worker starts a round at every update
\* it sees (count threshold 1).
InitRounds == Init /\ count_threshold_ = 1 /\ tick_threshold_ = 0

Next ==
    \/ Start
    \/ Updated
    \/ Worker
    \/ DoMix
    \/ \E t \in MixThreads : Round(t)
    \/ Handlers

Spec == InitRounds /\ [][Next]_vars

\* The lifecycle: start and stop called from several threads, with updated,
\* the worker and do_mix; one peer is registered.
InitLifecycle == Init /\ tick_threshold_ = 0 /\ nodes = {my_id_, 1}

NextLifecycle ==
    \/ Lifecycle
    \/ Updated
    \/ Worker
    \/ DoMix
    \/ \E t \in MixThreads : Round(t)

SpecLifecycle == InitLifecycle /\ [][NextLifecycle]_vars

\* The rounds alone: as above, without the handlers.
NextExchange ==
    \/ Start
    \/ Updated
    \/ Worker
    \/ DoMix
    \/ \E t \in MixThreads : Round(t)

SpecExchange == InitRounds /\ [][NextExchange]_vars

\* The triggers: every pair of thresholds, with the clock running.
InitTimed == Init /\ nodes = {my_id_, 1}

NextTimed ==
    \/ Tick
    \/ Start
    \/ Updated
    \/ Worker
    \/ DoMix
    \/ \E t \in MixThreads : Round(t)

SpecTimed == InitTimed /\ [][NextTimed]_vars

\* The resets: a count threshold of 1 and every tick threshold, with the
\* clock running, and no server, this node alone, or this node and one peer.
InitReset == Init /\ count_threshold_ = 1 /\ nodes \subseteq {my_id_, 1}

SpecReset == InitReset /\ [][NextTimed]_vars

\* The readers and the writers of counter_ and ticktime_: get_status and
\* updated against the worker, do_mix and the push handler, with one peer.
InitStatus == Init /\ count_threshold_ = 1 /\ tick_threshold_ = 0 /\ nodes = {my_id_, 1}

NextStatus ==
    \/ Start
    \/ Updated
    \/ GetStatus
    \/ Worker
    \/ DoMix
    \/ \E t \in MixThreads : Round(t)
    \/ PushHandler

SpecStatus == InitStatus /\ [][NextStatus]_vars

\* The locks: every operation that takes m_ or model_mutex_, with one peer,
\* which is the one that calls the push handler, and one thread that calls
\* stop.
InitLocks == Init /\ count_threshold_ = 1 /\ tick_threshold_ = 0 /\ nodes = {my_id_, 1}

NextLocks ==
    \/ Start
    \/ Stop("a")
    \/ Join("a")
    \/ Updated
    \/ GetStatus
    \/ Worker
    \/ DoMix
    \/ \E t \in MixThreads : Round(t)
    \/ HPushLock(1)
    \/ HPushBody
    \/ HPushReturn
    \/ ReadHandlers

SpecLocks == InitLocks /\ [][NextLocks]_vars

\* The server list under a changing membership: every peer is registered at
\* first, and peers leave while the worker and do_mix run their rounds.
InitMembers == Init /\ count_threshold_ = 1 /\ tick_threshold_ = 0 /\ nodes = Nodes

NextMembers ==
    \/ \E n \in Peers : NodeLeave(n)
    \/ Start
    \/ Updated
    \/ Worker
    \/ DoMix
    \/ \E t \in MixThreads : Round(t)

SpecMembers == InitMembers /\ [][NextMembers]_vars

\* A count threshold of 1 with a worker that is scheduled fairly: a thread
\* that waits for a lock gets it when it is released again and again, an RPC
\* returns, and a started handler runs to its end.
InitLive == Init /\ count_threshold_ = 1 /\ tick_threshold_ = 0 /\ nodes = {my_id_, 1}

WorkerStep == Worker \/ Round("w")

NextLive ==
    \/ Start
    \/ Updated
    \/ WorkerStep
    \/ PushHandler

SpecLive ==
    /\ InitLive
    /\ [][NextLive]_vars
    /\ SF_vars(WorkerStep)
    /\ SF_vars(HPushBody \/ HPushReturn)

\* ------------------------------------------------------------------ claims

MixPcs == {"mix_refresh", "mix_select", "ga_r", "ga_m", "rpc_pull", "rpc_gpa",
           "pl_r", "pl_m", "rpc_push", "ps_w", "ps_m", "ps_t", "mix_inc_r",
           "mix_inc_w"}
RpcPcs == {"rpc_pull", "rpc_gpa", "rpc_push"}

Sends(t, n, name) == lastrpc'[n] = << t, name >> /\ lastrpc[n] # << t, name >>

\* C1: the RPCs a thread sends to a node within one exchange are pull, then
\* get_pull_argument, then push, and no other RPC of this mixer to that node
\* comes between them: a pull opens an exchange with a node to which no
\* exchange is open, get_pull_argument follows the same thread's pull, and
\* push follows the same thread's get_pull_argument.
C1_ExchangeNotInterleaved ==
    [][\A t \in MixThreads, n \in Nodes :
          /\ Sends(t, n, "pull") => lastrpc[n] = NoCall
          /\ Sends(t, n, "get_pull_argument") => lastrpc[n] = << t, "pull" >>
          /\ Sends(t, n, "push") => lastrpc[n] = << t, "get_pull_argument" >>]_vars

ExchangePcs == {"ga_r", "ga_m", "rpc_pull", "rpc_gpa", "pl_r", "pl_m",
                "rpc_push", "ps_w", "ps_m", "ps_t"}

\* C2: a round takes the candidates in list order, one at a time, and does
\* the six steps of an exchange in the order get_argument, Peer.pull,
\* Peer.get_pull_argument, Adapter.pull, Peer.push, Adapter.push: each step
\* is entered from the step before it only, every RPC goes to the candidate
\* at the current index, Adapter.push is entered only by a successful return
\* of Peer.push, and the next exchange is that of the next index and starts
\* only when Adapter.push has returned.
C2_StepsInOrder ==
    [][\A t \in MixThreads : pc'[t] # pc[t] =>
          /\ pc'[t] = "ga_r" =>
                \/ pc[t] = "mix_select" /\ idx'[t] = 1
                \/ pc[t] = "ps_t" /\ idx'[t] = idx[t] + 1
          /\ pc'[t] = "ga_m" => pc[t] = "ga_r"
          /\ pc'[t] = "rpc_pull" => pc[t] = "ga_m"
          /\ pc'[t] = "rpc_gpa" => pc[t] = "rpc_pull"
          /\ pc'[t] = "pl_r" => pc[t] = "rpc_gpa"
          /\ pc'[t] = "pl_m" => pc[t] = "pl_r"
          /\ pc'[t] = "rpc_push" => pc[t] = "pl_m"
          /\ pc'[t] = "ps_w" => pc[t] = "rpc_push" /\ okcount'[t] = okcount[t] + 1
          /\ pc'[t] = "ps_m" => pc[t] = "ps_w"
          /\ pc'[t] = "ps_t" => pc[t] = "ps_m"
          /\ pc'[t] = "mix_inc_r" /\ pc[t] = "ps_t" => idx[t] = Len(cand[t])
          /\ pc[t] \in ExchangePcs \ {"ps_t"} /\ pc'[t] \in ExchangePcs
                => idx'[t] = idx[t]
          /\ \A n \in Nodes, name \in {"pull", "get_pull_argument", "push"} :
                Sends(t, n, name) => n = candv[t][idx[t]]]_vars

\* A thread has come to the last step of its exchange with the second
\* candidate of its list.
C2_SecondExchangeDone == \E t \in MixThreads : pc[t] = "ps_t" /\ idx[t] = 2

\* C3: do_mix returns true exactly when its round met no failure, and false
\* when it met one.
C3_DoMixTellsFailure ==
    /\ pc["d"] = "dm_ret_true" => ~failed["d"]
    /\ pc["d"] = "dm_ret_false" => failed["d"]

\* C4: a thread that is invoking a round, or that waits for the answer of an
\* RPC to a peer, holds neither the control lock nor the model lock.
C4_NoLockAcrossRpc ==
    \A t \in MixThreads : pc[t] \in RpcPcs \cup {"mix_refresh"} =>
        /\ m_ # t
        /\ model_mutex_.writer # t
        /\ t \notin model_mutex_.readers

\* The worker waits for the answer of Peer.push, after the two local steps
\* it took under the locks.
C4_WorkerWaitsForPush == pc["w"] = "rpc_push"

\* C5: once a stop has returned, and until the next start, no worker thread
\* is alive and no RPC of a round is in flight.
C5_QuietAfterStop ==
    stopped =>
        /\ pc["w"] \in {"dead", "exited"}
        /\ \A t \in MixThreads : pc[t] \notin RpcPcs

\* C6: mix_count never decreases.
C6_MixCountMonotone == [][mix_count_' >= mix_count_]_vars

C9_AutomaticTrigger ==
    /\ [][pc["w"] = "w_wait" /\ pc'["w"] = "w_tick" =>
              \/ 0 < count_threshold_ /\ counter_ >= count_threshold_
              \/ 0 < tick_threshold_ /\ now - ticktime_ > tick_threshold_]_vars
    /\ [](count_threshold_ = 0 /\ tick_threshold_ = 0 =>
              pc["w"] \notin MixPcs \cup {"w_tick"})

\* Both thresholds are 0, updates have been counted and time has passed, and
\* the worker has looked at the thresholds at that time and gone on waiting.
C9_DisabledWorkerChecked ==
    /\ count_threshold_ = 0
    /\ tick_threshold_ = 0
    /\ counter_ = MaxCounter
    /\ now = MaxTime
    /\ new_ticktime = MaxTime
    /\ pc["w"] = "w_loop"

WorkerLive == is_running_ /\ pc["w"] \notin {"dead", "exited", "terminated"}
RoundStarts == \E t \in MixThreads : pc[t] = "mix_refresh"

\* C10: with a count threshold of 1, a live worker and one peer, an update
\* that has been counted is eventually followed by the start of a round.
C10_UpdateLeadsToRound == (WorkerLive /\ counter_ >= 1) ~> RoundStarts


\* C11: the step by which a thread enters a round, whether the worker after
\* a crossed threshold or do_mix, leaves counter at 0 and last_tick at the
\* time that thread has just read, and no step of the round up to the choice
\* of the candidates, and no step that ends the round (normally, with no
\* server, with no candidate, or by an exception), changes either of them.
C11_ResetBeforeRound ==
    [][\A t \in MixThreads :
          /\ pc[t] # "mix_refresh" /\ pc'[t] = "mix_refresh" =>
                /\ counter_' = 0
                /\ ticktime_' = IF t = "w" THEN new_ticktime ELSE now
          /\ pc[t] \in {"mix_refresh", "mix_select"} /\ pc'[t] # pc[t] =>
                UNCHANGED << counter_, ticktime_ >>
          /\ pc[t] \in MixPcs /\ pc'[t] \notin MixPcs =>
                UNCHANGED << counter_, ticktime_ >>]_vars

\* do_mix, called at time MaxTime, is about to return from a round that
\* failed, with the resets it made still in effect.
C11_ResetSurvivesAbort ==
    /\ pc["d"] = "dm_ret_true"
    /\ failed["d"]
    /\ counter_ = 0
    /\ ticktime_ = MaxTime


\* The threads that have written counter_ = 0 and not yet ticktime_.
HalfReset ==
    {t \in LockThreads : \/ t = "w" /\ pc[t] = "w_tick"
                         \/ t = "d" /\ pc[t] = "dm_tick"
                         \/ pc[t] \in {"ps_t", "h_push_t"}}

\* C12: a thread that has reset counter and not yet last_tick holds the
\* mixer mutex, the push handler and the local push also hold the model
\* writer lock then, and a reader under the mixer mutex never sees the two
\* apart: while get_status holds the mutex no reset is half done and neither
\* value changes, and updated and the worker's threshold test take their
\* step only when no reset is half done.
C12_ResetsNotTorn ==
    /\ [](\A t \in HalfReset : m_ = t)
    /\ [](\A t \in HalfReset : pc[t] \in {"ps_t", "h_push_t"} => model_mutex_.writer = t)
    /\ [](pc["g"] # "idle" => m_ = "g" /\ HalfReset = {})
    /\ [][pc["g"] # "idle" => UNCHANGED << counter_, ticktime_ >>]_vars
    /\ [][counter_' = counter_ + 1 \/ (pc["w"] = "w_wait" /\ pc'["w"] # "w_wait")
              => HalfReset = {}]_vars

\* get_status has read the counter while the push handler, the worker and
\* do_mix each wait for the mixer mutex to make or to finish a reset.
C12_StatusWhileResetsWait ==
    /\ pc["g"] = "gs_tick"
    /\ pc["h"] = "h_push_m"
    /\ pc["w"] = "w_wait"
    /\ pc["d"] = "idle"
    /\ counter_ = 1
    /\ mix_count_ = 1


\* C13: a stop that finds the mixer running signals the condition, so that
\* a worker waiting on it is woken by the stop.
C13_StopSignals ==
    [][\A c \in StopThreads :
          pc[c] = "idle" /\ pc'[c] = "joining" /\ pc["w"] = "w_wait" => c_']_vars


\* C14: no exception raised in a round ends the worker: an exception never
\* leaves mixer_loop.
C14_WorkerSurvivesRound == pc["w"] # "terminated"


\* C15: when the refresh finds no server the round ends there: do_mix goes
\* on to return true, no RPC is sent, and the model, mix_count and counter
\* are as before the step. With no server registered a call of do_mix
\* therefore changes nothing but counter, which it sets to 0, and last_tick,
\* so that a second call leaves counter, mix_count and the model as the
\* first did.
C15_NoServerNoOp ==
    /\ [][\A t \in MixThreads :
             pc[t] = "mix_refresh" /\ pc'[t] # pc[t] /\ ~failed'[t] /\ nodes = {} =>
                 /\ pc'[t] = AfterMix(t)
                 /\ UNCHANGED << model, mix_count_, counter_, lastrpc >>]_vars
    /\ [][nodes = {} /\ pc'["d"] # pc["d"] =>
             /\ UNCHANGED << model, mix_count_ >>
             /\ counter_' = IF pc["d"] = "idle" THEN 0 ELSE counter_]_vars
    /\ [](nodes = {} =>
             /\ mix_count_ = 0
             /\ model = {}
             /\ \A n \in Nodes : lastrpc[n] = NoCall
             /\ pc["d"] = "dm_ret_false" => failed["d"])

\* do_mix, called at time MaxTime with no server registered and the worker
\* waiting, is about to return true.
C15_DoMixOnEmptyCluster ==
    /\ nodes = {}
    /\ pc["d"] = "dm_ret_true"
    /\ ~failed["d"]
    /\ counter_ = 0
    /\ pc["w"] = "w_wait"
    /\ ticktime_ = MaxTime


\* C16: a round for which the selector returns no candidate returns at that
\* point: with no node but this one registered, mix_count is never
\* incremented.
C16_NoCandidateNoCount == nodes \subseteq {my_id_} => mix_count_ = 0


\* C17: the worker, woken from its wait, goes on to a round only while the
\* mixer is running.
C17_NoRoundAfterStop ==
    [][pc["w"] = "w_wait" /\ pc'["w"] = "w_tick" => is_running_]_vars


\* The threads that hold the model lock, those that wait for it, and those
\* that wait for the mixer mutex.
HoldsModel(t) == model_mutex_.writer = t \/ t \in model_mutex_.readers
WaitsModel(t) == pc[t] \in {"ga_r", "pl_r", "ps_w"}
WaitsMutex(t) ==
    pc[t] \in {"w_lock", "w_wait", "ga_m", "pl_m", "ps_m", "h_push_m", "h_pull", "h_gpa"}

\* What thread t can do next.
ThreadStep(t) ==
    CASE t = "w" -> Worker \/ Round("w")
      [] t = "d" -> DoMix \/ Round("d")
      [] t = "h" -> Handlers
      [] t = "g" -> GetStatus
      [] OTHER -> Stop(t) \/ Join(t)

\* C18: a thread that holds both locks took the model lock first (it holds
\* both only inside push, after the writer lock), no thread asks for the
\* model lock while it holds the mixer mutex, and no threads wait for each
\* other: whenever a lock is held, a thread that holds one can take a step.
C18_LockOrder ==
    /\ \A t \in Threads : m_ = t /\ t \in LockThreads /\ HoldsModel(t) =>
            pc[t] \in {"ps_t", "h_push_t"} /\ model_mutex_.writer = t
    /\ \A t \in LockThreads : WaitsModel(t) => m_ # t /\ ~HoldsModel(t)
    /\ \A t \in StopThreads : pc[t] = "joining" => m_ # t
    /\ Alive /\ (m_ # NoThread \/ \E t \in LockThreads : HoldsModel(t)) =>
            \E u \in Threads : (m_ = u \/ HoldsModel(u)) /\ ENABLED ThreadStep(u)

\* The push handler holds the writer lock and waits for the mixer mutex,
\* which get_status holds, while the worker waits for the model lock, do_mix
\* for the mutex and stop for the worker.
C18_AllWaiting ==
    /\ pc["h"] = "h_push_m"
    /\ pc["g"] = "gs_count"
    /\ pc["w"] = "ga_r"
    /\ pc["d"] = "idle"
    /\ pc["a"] = "joining"


\* C19: the candidates a round iterates over are the peers of its snapshot:
\* while the round is in its loop, every candidate pointer still denotes the
\* peer it denoted when the candidate list was built.
C19_StableSnapshot ==
    \A t \in MixThreads : pc[t] \in ExchangePcs =>
        \A i \in 1..Len(cand[t]) :
            /\ cand[t][i] <= Len(servers_)
            /\ servers_[cand[t][i]] = candv[t][i]


\* C20: the local application of a peer's diff in a round is push itself: it
\* sets counter to 0 whatever updates were counted since the round began,
\* and the exchange ends, by the return of that push, with counter still 0
\* and last_tick at the current time.
C20_LocalPushResets ==
    [][\A t \in MixThreads :
          /\ pc[t] = "ps_m" /\ pc'[t] = "ps_t" =>
                /\ counter_' = 0
                /\ model' = model \cup {her_diff[t]}
          /\ pc[t] = "ps_t" /\ pc'[t] # "ps_t" =>
                /\ counter_ = 0 /\ counter_' = 0
                /\ ticktime_' = now
                /\ pc'[t] \in {"ga_r", "mix_inc_r"}
          /\ pc[t] \in ExchangePcs /\ pc'[t] # pc[t] /\ pc'[t] \in {"ga_r", "mix_inc_r"} =>
                pc[t] = "ps_t"]_vars

\* The worker is about to apply a peer's diff at time MaxTime, and
\* MaxCounter updates have been counted since its round began.
C20_UpdatesBeforeLocalPush ==
    /\ pc["w"] = "ps_m"
    /\ counter_ = MaxCounter
    /\ now = MaxTime

====
